---- MODULE Spec2Model ----
(***************************************************************************)
(* Model of the AdminService event handlers (srv/admin-service.ts): the    *)
(* before-handlers that validate writes and deletes, the generic writes    *)
(* they guard, the after-READ handlers that derive the virtual fields and  *)
(* the four named operations completeTask, assignTask, updateProjectBudget *)
(* and getProjectStats, running against a store of Projects and Tasks.     *)
(*                                                                         *)
(* Every `await` on the store is a point where another request may run,    *)
(* so a handler is one action per store round trip.  A request slot        *)
(* (Procs) holds the handler's local variables between its round trips.    *)
(*                                                                         *)
(* Encoding of JavaScript values:                                          *)
(*   - a nullable value is a sequence: <<>> is null, <<v>> is the value v; *)
(*   - an object (req.data, a row) is a record; a property that is         *)
(*     `undefined` is a field that is not in the record's DOMAIN;          *)
(*   - an instant is an integer number of clock units, DayLen units to a   *)
(*     day; a calendar date is a day number.                               *)
(*   - the one floating-point result that is observable, the percentage  *)
(*     Math.round((x / y) * 100), is computed as IEEE 754 doubles are.     *)
(***************************************************************************)
EXTENDS Integers, Sequences, FiniteSets, TLC

\* ------------------------------------------------------------------ bounds

\* Clock units in one calendar day.
DayLen == 2
\* The clock stops advancing here.
MaxClock == 4
\* Requests one behaviour starts.
MaxOps == 2
\* The most tasks a query returns where only their counts matter.
MaxTasks == 40

\* ------------------------------------------------------------------ values

Null == <<>>
Some(v) == <<v>>

Procs == {1, 2}
ProjectIDs == {"P1", "P2"}
TaskIDs == {"T1", "T2", "T3"}

\* Offsets of the server's local time from UTC, in clock units.
TZOffsets == {-1, 0, 1}

Statuses == {"TODO", "IN_PROGRESS", "IN_REVIEW", "DONE", "BLOCKED"}

\* A string whose characters matter (assignedTo) is a sequence of characters.
\* assignedTo arguments: undefined or null (Null), "", "  ", "A" and " B".
Assignees == {Null, Some(<<>>), Some(<<" ", " ">>), Some(<<"A">>), Some(<<" ", "B">>)}

\* ---------------------------------------------------------- JS semantics

Has(obj, f) == f \in DOMAIN obj

\* ToBoolean of a nullable number, of a nullable string of characters, and of
\* a nullable identifier (identifiers are never empty).
TruthyNum(x) == x # Null /\ x[1] # 0
TruthyStr(x) == x # Null /\ x[1] # <<>>
TruthyID(x) == x # Null

\* ToNumber of a nullable number: null is 0.
Num(x) == IF x = Null THEN 0 ELSE x[1]

\* obj.f !== undefined && obj.f < 0   (null < 0 is false)
DefinedNegative(obj, f) == Has(obj, f) /\ obj[f] # Null /\ obj[f][1] < 0

\* String.prototype.trim(): drops the white space at both ends.
IsSpace(c) == c \in {" ", "\t", "\n"}

RECURSIVE TrimStart(_)
TrimStart(s) == IF s # <<>> /\ IsSpace(Head(s)) THEN TrimStart(Tail(s)) ELSE s

RECURSIVE TrimEnd(_)
TrimEnd(s) == IF s # <<>> /\ IsSpace(s[Len(s)])
              THEN TrimEnd(SubSeq(s, 1, Len(s) - 1)) ELSE s

Trim(s) == TrimEnd(TrimStart(s))

\* ------------------------------------------------- IEEE 754 double arithmetic
\* A double between 1/64 and 256 is [sig, k]: its value is sig * 2^(-52 - k),
\* and sig, an integer of 53 significant bits, is a sequence of five digits
\* in base 2^13, most significant first (the first digit may exceed the base).

RECURSIVE Pow2(_)
Pow2(n) == IF n = 0 THEN 1 ELSE 2 * Pow2(n - 1)

Base == Pow2(13)

\* Carry every digit but the first into the range 0..Base-1.
Carried(d) ==
    LET c5 == d[5]
        c4 == d[4] + c5 \div Base
        c3 == d[3] + c4 \div Base
        c2 == d[2] + c3 \div Base
        c1 == d[1] + c2 \div Base
    IN <<c1, c2 % Base, c3 % Base, c4 % Base, c5 % Base>>

\* The first n digits of r / y after the point (0 <= r < y), and what is left
\* of r after them.
RECURSIVE DivDigits(_, _, _)
DivDigits(r, y, n) ==
    IF n = 0 THEN <<>>
    ELSE <<(r * Base) \div y>> \o DivDigits((r * Base) % y, y, n - 1)

RECURSIVE DivRem(_, _, _)
DivRem(r, y, n) == IF n = 0 THEN r ELSE DivRem((r * Base) % y, y, n - 1)

\* The least k with x * 2^k >= y, from k on.
RECURSIVE Normalise(_, _, _)
Normalise(x, y, k) == IF x >= y THEN k ELSE Normalise(2 * x, y, k + 1)

\* x / y for integers 0 < x <= y: the quotient's first 53 bits, rounded to
\* nearest, ties to even.
DoubleDiv(x, y) ==
    LET k == Normalise(x, y, 0)
        r == x * Pow2(k) - y
        exact == <<1>> \o DivDigits(r, y, 4)
        rest == DivRem(r, y, 4)
        up == 2 * rest > y \/ (2 * rest = y /\ exact[5] % 2 = 1)
        sig == IF up THEN Carried([exact EXCEPT ![5] = @ + 1]) ELSE exact
    IN IF sig[1] = 2 THEN [sig |-> <<1, 0, 0, 0, 0>>, k |-> k - 1]
       ELSE [sig |-> sig, k |-> k]

\* d * 100 for a double d: the product has 59 or 60 bits, of which the last
\* 6 or 7 are rounded away, to nearest, ties to even.
DoubleTimes100(d) ==
    LET product == Carried(<<100 * d.sig[1], 100 * d.sig[2], 100 * d.sig[3],
                             100 * d.sig[4], 100 * d.sig[5]>>)
        unit == IF product[1] >= 128 THEN 128 ELSE 64
        dropped == product[5] % unit
        odd == (product[5] \div unit) % 2 = 1
        up == 2 * dropped > unit \/ (2 * dropped = unit /\ odd)
        kept == product[5] - dropped + (IF up THEN unit ELSE 0)
    IN [sig |-> Carried([product EXCEPT ![5] = kept]), k |-> d.k]

\* Math.round of a double: floor(d + 0.5).
MathRound(d) ==
    LET whole == d.sig[1] \div Pow2(d.k)
        half == IF d.k = 0 THEN d.sig[2] >= Base \div 2
                ELSE 2 * (d.sig[1] % Pow2(d.k)) >= Pow2(d.k)
    IN whole + (IF half THEN 1 ELSE 0)

\* Math.round((x / y) * 100) for the counts 0 <= x <= y, 0 < y, computed once.
RoundTable ==
    [y \in 1..MaxTasks |->
        [x \in 0..y |-> IF x = 0 THEN 0 ELSE MathRound(DoubleTimes100(DoubleDiv(x, y)))]]

\* Math.round((x / y) * 100)
RoundPercent(x, y) == RoundTable[y][x]

\* Lines 107 and 261: the share of completed tasks, in percent.
completionRate(completedTasks, totalTasks) ==
    IF totalTasks > 0 THEN RoundPercent(completedTasks, totalTasks) ELSE 0

\* ------------------------------------------------------------------ state

VARIABLES
    projects,   \* the Projects table: ID -> row, over the IDs that exist
    tasks,      \* the Tasks table: ID -> row, over the IDs that exist
    now,        \* the clock: the instant `new Date()` returns
    tz,         \* the server's time zone offset
    req,        \* per request slot: the running handler's position and locals
    resp,       \* the response of the request that finished last
    ops         \* requests started so far

vars == <<projects, tasks, now, tz, req, resp, ops>>

Idle == [pc |-> "idle"]
NoResp == [kind |-> "none"]

\* What the caller receives: the handler's return value, or, when the handler
\* signalled errors with req.error, a rejection carrying them and no payload.
Payload(p, op, body) == [kind |-> "payload", proc |-> p, op |-> op, body |-> body]
Rejected(p, op, errors) == [kind |-> "error", proc |-> p, op |-> op, errors |-> errors]

\* The dispatcher's answer once the handlers of a phase have run: req.error
\* does not stop a handler, it collects; a request with collected errors is
\* rejected and whatever the handler returned is dropped.
Dispatch(p, op, errors, body) ==
    IF errors # {} THEN Rejected(p, op, errors) ELSE Payload(p, op, body)

Error(code, message) == [code |-> code, message |-> message]

\* ------------------------------------------------------------------ store

\* The lookup without its where clause: the first row there is.
SelectOne_anyRow(table, id) ==
    IF DOMAIN table # {} THEN Some(table[CHOOSE i \in DOMAIN table : TRUE]) ELSE Null

\* SELECT.one.from(T).where({ ID: id }): the row, or undefined (Null here).
SelectOne(table, id) == IF id \in DOMAIN table THEN Some(table[id]) ELSE Null

\* The update without its where clause: every row gets the fields.
UpdateWhereID_allRows(table, id, fields) ==
    [i \in DOMAIN table |->
        [f \in DOMAIN table[i] |-> IF f \in DOMAIN fields THEN fields[f] ELSE table[i][f]]]

\* UPDATE(T).set(fields).where({ ID: id }): overwrites the named fields of the
\* row if there is one, and affects no row otherwise.
UpdateWhereID(table, id, fields) ==
    IF id \in DOMAIN table
    THEN [table EXCEPT ![id] =
            [f \in DOMAIN @ |-> IF f \in DOMAIN fields THEN fields[f] ELSE @[f]]]
    ELSE table

\* ---------------------------------------------------------------- requests

\* Slot p starts a request whose handler now holds `locals`. `alone` records
\* whether any other request has run while this one was in flight.
Begin(p, locals) ==
    /\ ops < MaxOps
    /\ ops' = ops + 1
    /\ req' = [q \in Procs |->
              IF q = p THEN locals @@ [alone |-> \A r \in Procs \ {p} : req[r] = Idle]
              ELSE IF req[q] = Idle THEN Idle
              ELSE [req[q] EXCEPT !.alone = FALSE]]

\* Slot p's request answers in the step that starts it.
Answer(p, r) ==
    /\ ops < MaxOps
    /\ ops' = ops + 1
    /\ req' = [q \in Procs |->
                 IF q = p \/ req[q] = Idle THEN Idle
                 ELSE [req[q] EXCEPT !.alone = FALSE]]
    /\ resp' = r

\* Slot p's request answers after its last store round trip.
Finish(p, r) == /\ req' = [req EXCEPT ![p] = Idle]
                /\ UNCHANGED ops
                /\ resp' = r

\* ------------------------------------------------------------------ clock

Tick == /\ now < MaxClock
        /\ now' = now + 1
        /\ UNCHANGED <<projects, tasks, tz, req, resp, ops>>

\* ------------------------------------------------------------ completeTask

\* The guard compared against a spelling no stored status has.
completeTask_alreadyDone_misspelt(task) == task.status = "Done"

\* task.status === 'DONE'   (line 151)
completeTask_alreadyDone(task) == task.status = "DONE"

\* Lines 143-153: the lookup and the two soft failures.
completeTask_select(p, taskID) ==
    /\ req[p] = Idle
    /\ LET task == SelectOne(tasks, taskID) IN
       IF task = Null
       THEN Answer(p, Payload(p, "completeTask",
                [success |-> FALSE, message |-> <<"Task with ID", taskID, "not found">>]))
       ELSE IF completeTask_alreadyDone(task[1])
       THEN Answer(p, Payload(p, "completeTask",
                [success |-> FALSE, message |-> <<"Task is already completed">>]))
       ELSE /\ Begin(p, [pc |-> "completeTask:update", taskID |-> taskID,
                         title |-> task[1].title])
            /\ UNCHANGED resp
    /\ UNCHANGED <<projects, tasks, now, tz>>

\* The write without its timestamp.
completeTask_set_noTimestamp == [status |-> "DONE"]

\* The fields completeTask writes (lines 155-158).
completeTask_set == [status |-> "DONE", completedAt |-> Some(now)]

\* Lines 155-163: the write and the success payload.
completeTask_update(p) ==
    /\ req[p].pc = "completeTask:update"
    /\ tasks' = UpdateWhereID(tasks, req[p].taskID, completeTask_set)
    /\ Finish(p, Payload(p, "completeTask",
            [success |-> TRUE,
             message |-> <<"Task", req[p].title, "marked as completed">>]))
    /\ UNCHANGED <<projects, now, tz>>

\* -------------------------------------------------------------- assignTask

\* The check without its trim().
assignTask_empty_noTrim(assignedTo) == ~TruthyStr(assignedTo)

\* !assignedTo || assignedTo.trim() === ''   (line 172)
assignTask_empty(assignedTo) == ~TruthyStr(assignedTo) \/ Trim(assignedTo[1]) = <<>>

\* Lines 170-180: the assignee check, then the lookup.
assignTask_select(p, taskID, assignedTo) ==
    /\ req[p] = Idle
    /\ IF assignTask_empty(assignedTo)
       THEN Answer(p, Payload(p, "assignTask",
                [success |-> FALSE, message |-> <<"Assignee name cannot be empty">>]))
       ELSE LET task == SelectOne(tasks, taskID) IN
            IF task = Null
            THEN Answer(p, Payload(p, "assignTask",
                    [success |-> FALSE,
                     message |-> <<"Task with ID", taskID, "not found">>]))
            ELSE /\ Begin(p, [pc |-> "assignTask:update", taskID |-> taskID,
                              assignedTo |-> assignedTo, status |-> task[1].status,
                              title |-> task[1].title])
                 /\ UNCHANGED resp
    /\ UNCHANGED <<projects, tasks, now, tz>>

\* The write that advances every status.
assignTask_set_always(status, assignedTo) ==
    [assignedTo |-> assignedTo, status |-> "IN_PROGRESS"]

\* The fields assignTask writes, from the status it read (lines 182-185).
assignTask_set(status, assignedTo) ==
    [assignedTo |-> assignedTo,
     status |-> IF status = "TODO" THEN "IN_PROGRESS" ELSE status]

\* Lines 182-190: the write and the success payload.
assignTask_update(p) ==
    /\ req[p].pc = "assignTask:update"
    /\ tasks' = UpdateWhereID(tasks, req[p].taskID,
                              assignTask_set(req[p].status, req[p].assignedTo))
    /\ Finish(p, Payload(p, "assignTask",
            [success |-> TRUE,
             message |-> <<"Task", req[p].title, "assigned to", req[p].assignedTo[1]>>]))
    /\ UNCHANGED <<projects, now, tz>>

\* ----------------------------------------------------- updateProjectBudget

\* The check that lets a negative budget through when a cost comes with it.
updateProjectBudget_negative_alone(data) ==
    DefinedNegative(data, "newBudget") /\ ~Has(data, "additionalCost")

\* newBudget !== undefined && newBudget < 0   (line 209)
updateProjectBudget_negative(data) == DefinedNegative(data, "newBudget")

\* Lines 217-218: the values to store, from the row read and the arguments.
\* additionalCost || 0 is 0 for undefined, null and 0.
\* newBudget || project.budget: a new budget of 0 is taken for none.
updatedBudget_truthy(project, data) ==
    IF Has(data, "newBudget") /\ TruthyNum(data.newBudget)
    THEN data.newBudget ELSE project.budget

updatedBudget(project, data) ==
    IF Has(data, "newBudget") THEN data.newBudget ELSE project.budget

\* The cost as it was read, nothing added.
updatedCost_noAddition(project, data) == Num(project.actualCost)

updatedCost(project, data) ==
    Num(project.actualCost) +
        (IF Has(data, "additionalCost") /\ TruthyNum(data.additionalCost)
         THEN data.additionalCost[1] ELSE 0)

\* Lines 197-215: the lookup and the two soft failures.
updateProjectBudget_select(p, data) ==
    /\ req[p] = Idle
    /\ LET project == SelectOne(projects, data.projectID) IN
       IF project = Null
       THEN Answer(p, Payload(p, "updateProjectBudget",
                [success |-> FALSE,
                 message |-> <<"Project with ID", data.projectID, "not found">>,
                 remainingBudget |-> 0]))
       ELSE IF updateProjectBudget_negative(data)
       THEN Answer(p, Payload(p, "updateProjectBudget",
                [success |-> FALSE,
                 message |-> <<"Budget cannot be negative">>,
                 remainingBudget |->
                    Num(project[1].budget) - Num(project[1].actualCost)]))
       ELSE /\ Begin(p, [pc |-> "updateProjectBudget:update", data |-> data,
                         name |-> project[1].name,
                         updatedBudget |-> updatedBudget(project[1], data),
                         updatedCost |-> updatedCost(project[1], data)])
            /\ UNCHANGED resp
    /\ UNCHANGED <<projects, tasks, now, tz>>

\* Line 219.
remaining(budget, cost) == Num(budget) - cost

\* Lines 221-230: the write and the success payload.
updateProjectBudget_update(p) ==
    /\ req[p].pc = "updateProjectBudget:update"
    /\ projects' = UpdateWhereID(projects, req[p].data.projectID,
                        [budget |-> req[p].updatedBudget,
                         actualCost |-> Some(req[p].updatedCost)])
    /\ Finish(p, Payload(p, "updateProjectBudget",
            [success |-> TRUE,
             message |-> <<"Budget updated for project", req[p].name>>,
             remainingBudget |-> remaining(req[p].updatedBudget, req[p].updatedCost)]))
    /\ UNCHANGED <<tasks, now, tz>>

\* ------------------------------------------------------------------ dates

\* new Date('YYYY-MM-DD'): a date-only string is midnight UTC of that day.
ParseDate(day) == day * DayLen

\* new Date() then setHours(0, 0, 0, 0): midnight of the current day in the
\* server's local time, as an instant.
LocalMidnight == ((now + tz) \div DayLen) * DayLen - tz

\* The current calendar day in the server's local time.
Today == (now + tz) \div DayLen

\* --------------------------------------------------------- getProjectStats

\* The query that finds no row.
TasksOfProject_none(id) == {}

\* SELECT.from(Tasks).where({ project_ID: id }): the IDs of the rows.
TasksOfProject(id) == {t \in DOMAIN tasks : tasks[t].project_ID = Some(id)}

\* Lines 246-263: the four counts over the selected rows.
getProjectStats_counts(rows) ==
    LET totalTasks == Cardinality(rows)
        completedTasks == Cardinality({t \in rows : tasks[t].status = "DONE"})
        overdueTasks == Cardinality({t \in rows :
                            /\ ~(tasks[t].status = "DONE" \/ tasks[t].dueDate = Null)
                            /\ ParseDate(tasks[t].dueDate[1]) < LocalMidnight})
    IN [totalTasks |-> totalTasks,
        completedTasks |-> completedTasks,
        completionRate |-> completionRate(completedTasks, totalTasks),
        overdueTasks |-> overdueTasks]

\* The lookup that signals nothing.
getProjectStats_notFound_silent(projectID) == {}

\* Lines 239-243: the errors the project lookup signals with req.error.
getProjectStats_notFound(projectID) ==
    IF SelectOne(projects, projectID) = Null
    THEN {Error(404, <<"Project with ID", projectID, "not found">>)}
    ELSE {}

\* Lines 237-243: the project lookup; a miss is signalled with req.error and the
\* handler goes on.
getProjectStats_selectProject(p, projectID) ==
    /\ req[p] = Idle
    /\ Begin(p, [pc |-> "getProjectStats:tasks", projectID |-> projectID,
                 errors |-> getProjectStats_notFound(projectID)])
    /\ UNCHANGED <<projects, tasks, now, tz, resp>>

\* Lines 245-263: the task query and the counts.
getProjectStats_selectTasks(p) ==
    /\ req[p].pc = "getProjectStats:tasks"
    /\ Finish(p, Dispatch(p, "getProjectStats", req[p].errors,
                          getProjectStats_counts(TasksOfProject(req[p].projectID))))
    /\ UNCHANGED <<projects, tasks, now, tz>>

\* ------------------------------------------------------------ after READ

\* Lines 99-110: the virtual fields of one project of a read's result.
Projects_afterRead(id, project) ==
    LET rows == TasksOfProject(id)
        totalTasks == Cardinality(rows)
        completedTasks == Cardinality({t \in rows : tasks[t].status = "DONE"})
    IN [completionRate |-> completionRate(completedTasks, totalTasks),
        remainingBudget |-> IF TruthyNum(project.budget)
                            THEN Some(project.budget[1] - Num(project.actualCost))
                            ELSE Null]

\* Lines 120-131: the virtual field of one task of a read's result.
Tasks_afterRead(task) ==
    [isOverdue |-> IF task.dueDate # Null /\ task.status # "DONE"
                   THEN ParseDate(task.dueDate[1]) < LocalMidnight
                   ELSE FALSE]

\* READ of one project by key: the generic read, then the after-handler, which
\* queries the project's tasks.
READ_Projects_on(p, id) ==
    /\ req[p] = Idle
    /\ IF id \in DOMAIN projects
       THEN /\ Begin(p, [pc |-> "READ Projects:after", ID |-> id, row |-> projects[id]])
            /\ UNCHANGED resp
       ELSE Answer(p, Rejected(p, "READ Projects", {Error(404, <<"Not Found">>)}))
    /\ UNCHANGED <<projects, tasks, now, tz>>

READ_Projects_after(p) ==
    /\ req[p].pc = "READ Projects:after"
    /\ Finish(p, Payload(p, "READ Projects",
                 req[p].row @@ Projects_afterRead(req[p].ID, req[p].row)
                            @@ [ID |-> req[p].ID]))
    /\ UNCHANGED <<projects, tasks, now, tz>>

\* READ of one task by key; its after-handler makes no query.
READ_Tasks(p, id) ==
    /\ req[p] = Idle
    /\ IF id \in DOMAIN tasks
       THEN Answer(p, Payload(p, "READ Tasks",
                 tasks[id] @@ Tasks_afterRead(tasks[id]) @@ [ID |-> id]))
       ELSE Answer(p, Rejected(p, "READ Tasks", {Error(404, <<"Not Found">>)}))
    /\ UNCHANGED <<projects, tasks, now, tz>>

\* ------------------------------------------------------------ initial rows

ProjectRow(name, budget, actualCost) ==
    [name |-> name, budget |-> budget, actualCost |-> actualCost,
     startDate |-> Null, endDate |-> Null]

TaskRow(title, status, completedAt, assignedTo, dueDate, project) ==
    [title |-> title, status |-> status, completedAt |-> completedAt,
     assignedTo |-> assignedTo, dueDate |-> dueDate, project_ID |-> project,
     estimatedHours |-> Null, actualHours |-> Some(0)]

\* A table over the IDs in `ids`, each row drawn from rows(id).
Tables(ids, rows(_)) ==
    UNION {{f \in [S -> UNION {rows(i) : i \in S}] : \A i \in S : f[i] \in rows(i)}
           : S \in SUBSET ids}

\* ------------------------------------------ before CREATE / UPDATE Projects

\* project.f is truthy, for a date: the payload carries it and it is not null.
HasDate(data, f) == Has(data, f) /\ data[f] # Null

\* The date check that also refuses equal dates.
Projects_endBeforeStart_orEqual(data) ==
    /\ HasDate(data, "startDate") /\ HasDate(data, "endDate")
    /\ ParseDate(data.endDate[1]) <= ParseDate(data.startDate[1])

\* Lines 24-31: both dates in the payload, and end < start.
Projects_endBeforeStart(data) ==
    /\ HasDate(data, "startDate") /\ HasDate(data, "endDate")
    /\ ParseDate(data.endDate[1]) < ParseDate(data.startDate[1])

\* The amount checks with the one on actualCost left out.
Projects_negativeAmounts_budgetOnly(data) ==
    IF DefinedNegative(data, "budget")
    THEN {Error(400, <<"Budget cannot be negative">>)} ELSE {}

\* Lines 34-40: the errors of the two amount checks.
Projects_negativeAmounts(data) ==
    (IF DefinedNegative(data, "budget")
     THEN {Error(400, <<"Budget cannot be negative">>)} ELSE {})
    \cup (IF DefinedNegative(data, "actualCost")
          THEN {Error(400, <<"Actual cost cannot be negative">>)} ELSE {})

\* Lines 21-40: every error the handler signals for the payload `data`.
Projects_before_errors(data) ==
    (IF Projects_endBeforeStart(data)
     THEN {Error(400, <<"End date must be after start date">>)} ELSE {})
    \cup Projects_negativeAmounts(data)

\* Lines 43-45: the warning.
Projects_before_warnings(data) ==
    IF /\ Has(data, "budget") /\ TruthyNum(data.budget)
       /\ Has(data, "actualCost") /\ TruthyNum(data.actualCost)
       /\ data.actualCost[1] > data.budget[1]
    THEN {<<"Actual cost exceeds budget">>} ELSE {}

\* The row an INSERT into Projects stores: the payload's fields over the
\* schema's defaults.
Projects_insertedRow(id, data) ==
    [f \in DOMAIN ProjectRow(id, Null, Some(0)) |->
        IF Has(data, f) THEN data[f] ELSE ProjectRow(id, Null, Some(0))[f]]

\* POST Projects: the before-handler, then the generic INSERT under a key no
\* row has yet.
CREATE_Projects(p, id, data) ==
    /\ req[p] = Idle
    /\ id \notin DOMAIN projects
    /\ LET errors == Projects_before_errors(data)
       IN IF errors # {}
          THEN /\ Answer(p, Rejected(p, "CREATE Projects", errors))
               /\ UNCHANGED projects
          ELSE /\ projects' = (id :> Projects_insertedRow(id, data)) @@ projects
               /\ Answer(p, Payload(p, "CREATE Projects", [ID |-> id, data |-> data])
                               @@ [warnings |-> Projects_before_warnings(data)])
    /\ UNCHANGED <<tasks, now, tz>>

\* PATCH Projects(id): the before-handler, then the generic UPDATE of the
\* payload's fields, which finds the row or answers 404.
UPDATE_Projects(p, id, data) ==
    /\ req[p] = Idle
    /\ LET errors == Projects_before_errors(data)
       IN IF errors # {}
          THEN /\ Answer(p, Rejected(p, "UPDATE Projects", errors))
               /\ UNCHANGED projects
          ELSE IF id \notin DOMAIN projects
          THEN /\ Answer(p, Rejected(p, "UPDATE Projects", {Error(404, <<"Not Found">>)}))
               /\ UNCHANGED projects
          ELSE /\ projects' = UpdateWhereID(projects, id, data)
               /\ Answer(p, Payload(p, "UPDATE Projects", [ID |-> id, data |-> data])
                               @@ [warnings |-> Projects_before_warnings(data)])
    /\ UNCHANGED <<tasks, now, tz>>

\* --------------------------------------------- before CREATE / UPDATE Tasks

\* The hour checks with the one on actualHours left out.
Tasks_negativeHours_estimatedOnly(data) ==
    IF DefinedNegative(data, "estimatedHours")
    THEN {Error(400, <<"Estimated hours cannot be negative">>)} ELSE {}

\* Lines 55-61: the errors of the two hour checks.
Tasks_negativeHours(data) ==
    (IF DefinedNegative(data, "estimatedHours")
     THEN {Error(400, <<"Estimated hours cannot be negative">>)} ELSE {})
    \cup (IF DefinedNegative(data, "actualHours")
          THEN {Error(400, <<"Actual hours cannot be negative">>)} ELSE {})

\* The reference taken on trust.
Tasks_projectMissing_unchecked(data) == {}

\* Lines 64-69: the lookup of the referenced project, if the payload names one.
Tasks_projectMissing(data) ==
    IF /\ Has(data, "project_ID") /\ TruthyID(data.project_ID)
       /\ SelectOne(projects, data.project_ID[1]) = Null
    THEN {Error(404, <<"Project with ID", data.project_ID[1], "not found">>)}
    ELSE {}

\* Lines 51-70: the handler, for the write `op` of the task `id`.
Tasks_before(p, op, id, data) ==
    /\ req[p] = Idle
    /\ LET errors == Tasks_negativeHours(data) \cup Tasks_projectMissing(data)
       IN IF errors # {}
          THEN Answer(p, Rejected(p, op, errors))
          ELSE /\ Begin(p, [pc |-> op, ID |-> id, data |-> data])
               /\ UNCHANGED resp
    /\ UNCHANGED <<projects, tasks, now, tz>>

CREATE_Tasks_before(p, id, data) ==
    id \notin DOMAIN tasks /\ Tasks_before(p, "CREATE Tasks", id, data)

UPDATE_Tasks_before(p, id, data) == Tasks_before(p, "UPDATE Tasks", id, data)

\* The row an INSERT into Tasks stores: the payload's fields over the schema's
\* defaults.
Tasks_insertedRow(id, data) ==
    [f \in DOMAIN TaskRow(id, "TODO", Null, Null, Null, Null) |->
        IF Has(data, f) THEN data[f] ELSE TaskRow(id, "TODO", Null, Null, Null, Null)[f]]

\* The generic INSERT, under a key no row has yet.
CREATE_Tasks_on(p) ==
    /\ req[p].pc = "CREATE Tasks"
    /\ IF req[p].ID \notin DOMAIN tasks
       THEN /\ tasks' = (req[p].ID :> Tasks_insertedRow(req[p].ID, req[p].data)) @@ tasks
            /\ Finish(p, Payload(p, "CREATE Tasks", [ID |-> req[p].ID, data |-> req[p].data]))
       ELSE /\ Finish(p, Rejected(p, "CREATE Tasks", {Error(400, <<"Entity already exists">>)}))
            /\ UNCHANGED tasks
    /\ UNCHANGED <<projects, now, tz>>

\* The generic UPDATE of the payload's fields, which finds the row or answers
\* 404.
UPDATE_Tasks_on(p) ==
    /\ req[p].pc = "UPDATE Tasks"
    /\ IF req[p].ID \in DOMAIN tasks
       THEN /\ tasks' = UpdateWhereID(tasks, req[p].ID, req[p].data)
            /\ Finish(p, Payload(p, "UPDATE Tasks", [ID |-> req[p].ID, data |-> req[p].data]))
       ELSE /\ Finish(p, Rejected(p, "UPDATE Tasks", {Error(404, <<"Not Found">>)}))
            /\ UNCHANGED tasks
    /\ UNCHANGED <<projects, now, tz>>

\* ---------------------------------------------------- before DELETE Projects

\* The query without its status condition: every task of the project.
Projects_activeTasks_anyStatus(projectID) ==
    {t \in DOMAIN tasks : tasks[t].project_ID = Some(projectID)}

\* Lines 78-81: SELECT.from(Tasks).where({ project_ID, status: {'!=': 'DONE'} })
Projects_activeTasks(projectID) ==
    {t \in DOMAIN tasks : /\ tasks[t].project_ID = Some(projectID)
                          /\ tasks[t].status # "DONE"}

\* The refusal signalled after the row has gone.
DELETE_Projects_before_deleteFirst(p, id) ==
    /\ req[p] = Idle
    /\ LET activeTasks == Projects_activeTasks(id)
       IN IF Cardinality(activeTasks) > 0
          THEN /\ Answer(p, Rejected(p, "DELETE Projects",
                   {Error(400, <<"Cannot delete project with", Cardinality(activeTasks),
                                 "active task(s). Complete or reassign them first.">>)}))
               /\ projects' = [i \in DOMAIN projects \ {id} |-> projects[i]]
          ELSE /\ Begin(p, [pc |-> "DELETE Projects:on", ID |-> id])
               /\ UNCHANGED <<resp, projects>>
    /\ UNCHANGED <<tasks, now, tz>>

\* Lines 75-86: the query and the refusal.
DELETE_Projects_before(p, id) ==
    /\ req[p] = Idle
    /\ LET activeTasks == Projects_activeTasks(id)
       IN IF Cardinality(activeTasks) > 0
          THEN Answer(p, Rejected(p, "DELETE Projects",
                   {Error(400, <<"Cannot delete project with", Cardinality(activeTasks),
                                 "active task(s). Complete or reassign them first.">>)}))
          ELSE /\ Begin(p, [pc |-> "DELETE Projects:on", ID |-> id])
               /\ UNCHANGED resp
    /\ UNCHANGED <<projects, tasks, now, tz>>

\* The generic DELETE: the row goes, and with it the tasks it is composed of
\* (README.md, line 367); without a row the answer is 404.
DELETE_Projects_on(p) ==
    /\ req[p].pc = "DELETE Projects:on"
    /\ IF req[p].ID \in DOMAIN projects
       THEN /\ projects' = [i \in DOMAIN projects \ {req[p].ID} |-> projects[i]]
            /\ tasks' = [t \in {u \in DOMAIN tasks : tasks[u].project_ID # Some(req[p].ID)}
                           |-> tasks[t]]
            /\ Finish(p, Payload(p, "DELETE Projects", [ID |-> req[p].ID]))
       ELSE /\ Finish(p, Rejected(p, "DELETE Projects", {Error(404, <<"Not Found">>)}))
            /\ UNCHANGED <<projects, tasks>>
    /\ UNCHANGED <<now, tz>>

\* ------------------------------------------------- tasks: the two operations

\* Rows as earlier requests left them: T1 in any status, T2 open or completed,
\* a completion instant on a task that was completed, nobody assigned yet.
InitTaskRows(id) ==
    {TaskRow(id, st, IF st = "DONE" THEN Some(1) ELSE Null, Null, Null, Some("P1")) :
        st \in IF id = "T1" THEN Statuses ELSE {"TODO", "DONE"}}

InitTasks ==
    /\ projects = [i \in {"P1"} |-> ProjectRow("P1", Some(10), Some(0))]
    /\ tasks \in Tables({"T1", "T2"}, InitTaskRows)
    /\ now = DayLen
    /\ tz = 0
    /\ req = [p \in Procs |-> Idle]
    /\ resp = NoResp
    /\ ops = 0

NextTasks ==
    \/ Tick
    \/ \E p \in Procs, t \in TaskIDs : completeTask_select(p, t)
    \/ \E p \in Procs : completeTask_update(p)
    \/ \E p \in Procs, t \in TaskIDs, a \in Assignees : assignTask_select(p, t, a)
    \/ \E p \in Procs : assignTask_update(p)

SpecTasks == InitTasks /\ [][NextTasks]_vars

\* ------------------------------------------------------- projects: budgets

\* req.data of updateProjectBudget: newBudget and additionalCost are each
\* undefined (left out), null, or a number.
BudgetArgs(newBudgets, additionalCosts) ==
    LET ids == {[projectID |-> i] : i \in ProjectIDs}
        nb == {<<>>} \cup {<<[newBudget |-> b]>> : b \in newBudgets}
        ac == {<<>>} \cup {<<[additionalCost |-> c]>> : c \in additionalCosts}
    IN {IF n = <<>> THEN (IF c = <<>> THEN i ELSE i @@ c[1])
        ELSE (IF c = <<>> THEN i @@ n[1] ELSE i @@ n[1] @@ c[1])
            : i \in ids, n \in nb, c \in ac}

NewBudgets == {Some(-1), Some(0), Some(1200)}
AdditionalCosts == {Null, Some(300), Some(-50)}
AllBudgetArgs == BudgetArgs(NewBudgets, AdditionalCosts)
FewBudgetArgs == BudgetArgs({Some(-1), Some(1200)}, {Some(300)})

\* Projects as earlier requests left them: P1 without a budget or with 1000
\* and nothing spent, P2 with 1000 and 300 spent.
InitProjectRows(id) ==
    IF id = "P1" THEN {ProjectRow(id, b, Some(0)) : b \in {Null, Some(1000)}}
    ELSE {ProjectRow(id, Some(1000), Some(300))}

InitBudget ==
    /\ projects \in Tables(ProjectIDs, InitProjectRows)
    /\ "P1" \in DOMAIN projects
    /\ tasks = [i \in {"T1"} |-> TaskRow("T1", "TODO", Null, Null, Null, Some("P1"))]
    /\ now = DayLen
    /\ tz = 0
    /\ req = [p \in Procs |-> Idle]
    /\ resp = NoResp
    /\ ops = 0

NextBudget ==
    \/ \E p \in Procs, d \in AllBudgetArgs :
           updateProjectBudget_select(p, d)
    \/ \E p \in Procs : updateProjectBudget_update(p)

SpecBudget == InitBudget /\ [][NextBudget]_vars

\* ------------------------------------------------------ statistics, reads

\* Tasks as earlier requests left them. T1 is open or completed, without a
\* due date or due on day 0 or day 1; T2, if there, was due on day 0 and is
\* open or completed; T3, if there, is open, due on day 1 in P1 or due on
\* day 0 in no project.
InitStatsRows(id) ==
    IF id = "T1"
    THEN {TaskRow(id, st, IF st = "DONE" THEN Some(1) ELSE Null, Null, d, Some("P1")) :
            st \in {"TODO", "DONE"}, d \in {Null, Some(0), Some(1)}}
    ELSE IF id = "T2"
    THEN {TaskRow(id, "TODO", Null, Null, Some(0), Some("P1")),
          TaskRow(id, "DONE", Some(1), Null, Some(0), Some("P1"))}
    ELSE {TaskRow(id, "IN_REVIEW", Null, Null, Some(1), Some("P1")),
          TaskRow(id, "TODO", Null, Null, Some(0), Null)}

InitStats ==
    /\ projects = [i \in {"P1"} |-> ProjectRow("P1", Some(1000), Some(300))]
    /\ tasks \in Tables(TaskIDs, InitStatsRows)
    /\ "T1" \in DOMAIN tasks
    /\ now = DayLen
    /\ tz \in TZOffsets
    /\ req = [p \in Procs |-> Idle]
    /\ resp = NoResp
    /\ ops = 0

NextStats ==
    \/ Tick
    \/ \E p \in Procs, i \in ProjectIDs : getProjectStats_selectProject(p, i)
    \/ \E p \in Procs : getProjectStats_selectTasks(p)
    \/ \E p \in Procs, i \in ProjectIDs : READ_Projects_on(p, i)
    \/ \E p \in Procs : READ_Projects_after(p)
    \/ \E p \in Procs, t \in TaskIDs : READ_Tasks(p, t)

SpecStats == InitStats /\ [][NextStats]_vars

\* --------------------------------------------------- projects: the writes

\* A record with, for each field of `fields`, either no such field or one of
\* values[f].
RECURSIVE Records(_, _)
Records(fields, values) ==
    IF fields = {} THEN {<< >>}
    ELSE LET f == CHOOSE g \in fields : TRUE
             rest == Records(fields \ {f}, values)
         IN rest \cup {(f :> v) @@ r : v \in values[f], r \in rest}

\* Payloads of a Project write: dates within two days, or amounts.
DatePayloads ==
    Records({"startDate", "endDate"},
            [startDate |-> {Some(1), Some(2)}, endDate |-> {Some(1), Some(2)}])
AmountPayloads ==
    Records({"budget", "actualCost"},
            [budget |-> {Some(-1), Some(0), Some(100)},
             actualCost |-> {Some(-1), Some(200)}])
ProjectPayloads == DatePayloads \cup AmountPayloads

\* No project, or P1 as an earlier request created it.
InitProjectWrites ==
    /\ projects \in {<< >>} \cup {[i \in {"P1"} |-> Projects_insertedRow("P1", d)] :
                                    d \in {<< >>, [startDate |-> Some(2), endDate |-> Some(2)]}}
    /\ tasks = << >>
    /\ now = DayLen
    /\ tz = 0
    /\ req = [p \in Procs |-> Idle]
    /\ resp = NoResp
    /\ ops = 0

NextProjectWrites ==
    \/ \E p \in Procs, i \in ProjectIDs, d \in ProjectPayloads : CREATE_Projects(p, i, d)
    \/ \E p \in Procs, i \in ProjectIDs, d \in ProjectPayloads : UPDATE_Projects(p, i, d)
    \/ \E p \in Procs, i \in ProjectIDs : READ_Projects_on(p, i)
    \/ \E p \in Procs : READ_Projects_after(p)

SpecProjectWrites == InitProjectWrites /\ [][NextProjectWrites]_vars

\* ----------------------------------------------------- projects: the delete

\* Tasks as earlier requests left them: T1 of P1 open or completed; T2, if
\* there, of P1, in progress or completed; T3, if there, open, of P2.
InitDeleteRows(id) ==
    IF id = "T1"
    THEN {TaskRow(id, st, IF st = "DONE" THEN Some(1) ELSE Null, Null, Null, Some("P1")) :
            st \in {"TODO", "DONE"}}
    ELSE IF id = "T2"
    THEN {TaskRow(id, st, IF st = "DONE" THEN Some(1) ELSE Null, Null, Null, Some("P1")) :
            st \in {"IN_PROGRESS", "DONE"}}
    ELSE {TaskRow(id, "TODO", Null, Null, Null, Some("P2"))}

InitDelete ==
    /\ projects \in {[i \in S |-> ProjectRow(i, Some(1000), Some(0))] :
                        S \in {{"P1"}, {"P1", "P2"}}}
    /\ tasks \in Tables(TaskIDs, InitDeleteRows)
    /\ now = DayLen
    /\ tz = 0
    /\ req = [p \in Procs |-> Idle]
    /\ resp = NoResp
    /\ ops = 0

NextDelete ==
    \/ \E p \in Procs, i \in ProjectIDs : DELETE_Projects_before(p, i)
    \/ \E p \in Procs : DELETE_Projects_on(p)
    \/ \E p \in Procs, t \in TaskIDs : completeTask_select(p, t)
    \/ \E p \in Procs : completeTask_update(p)

SpecDelete == InitDelete /\ [][NextDelete]_vars

\* ------------------------------------------------------- tasks: the writes

\* Payloads of a Task write: hours, or a project reference (null, P1, P2),
\* or a negative estimate with a reference.
HourPayloads ==
    {[estimatedHours |-> Some(-1)], [actualHours |-> Some(-2)],
     [estimatedHours |-> Some(5), actualHours |-> Some(3)],
     [estimatedHours |-> Some(5), actualHours |-> Some(-2)],
     [estimatedHours |-> Some(-1), actualHours |-> Some(-2)]}
ReferencePayloads ==
    {[project_ID |-> r] : r \in {Null, Some("P1"), Some("P2")}}
        \cup {[project_ID |-> Some("P2"), estimatedHours |-> Some(-1)]}
TaskPayloads == HourPayloads \cup ReferencePayloads

\* P1 and no P2; no task, or T1 as an earlier request created it.
InitTaskWrites ==
    /\ projects = [i \in {"P1"} |-> ProjectRow("P1", Some(1000), Some(0))]
    /\ tasks \in {<< >>} \cup {[i \in {"T1"} |-> Tasks_insertedRow("T1", d)] :
                                 d \in {<< >>, [project_ID |-> Some("P1"),
                                               estimatedHours |-> Some(5)]}}
    /\ now = DayLen
    /\ tz = 0
    /\ req = [p \in Procs |-> Idle]
    /\ resp = NoResp
    /\ ops = 0

NextTaskWrites ==
    \/ \E p \in Procs, t \in {"T1", "T2"}, d \in TaskPayloads : CREATE_Tasks_before(p, t, d)
    \/ \E p \in Procs : CREATE_Tasks_on(p)
    \/ \E p \in Procs, t \in {"T1", "T2"}, d \in TaskPayloads : UPDATE_Tasks_before(p, t, d)
    \/ \E p \in Procs : UPDATE_Tasks_on(p)

SpecTaskWrites == InitTaskWrites /\ [][NextTaskWrites]_vars

\* ------------------------------------------------- writes of both entities

\* One payload of each kind: refused for an amount, refused for its dates,
\* stored; refused for its hours, naming P2, naming P1.
FewProjectPayloads ==
    {[budget |-> Some(-1)], [startDate |-> Some(2), endDate |-> Some(1)],
     [budget |-> Some(100)]}
FewTaskPayloads ==
    {[estimatedHours |-> Some(-1)], [project_ID |-> Some("P2")],
     [project_ID |-> Some("P1")]}

\* P1 and no P2; T1 of P1, open or completed, or no task.
InitWrites ==
    /\ projects = [i \in {"P1"} |-> ProjectRow("P1", Some(1000), Some(0))]
    /\ tasks \in {<< >>} \cup
                 {[i \in {"T1"} |-> TaskRow("T1", st, IF st = "DONE" THEN Some(1) ELSE Null,
                                            Null, Null, Some("P1"))] :
                    st \in {"TODO", "DONE"}}
    /\ now = DayLen
    /\ tz = 0
    /\ req = [p \in Procs |-> Idle]
    /\ resp = NoResp
    /\ ops = 0

NextWrites ==
    \/ \E p \in Procs, i \in ProjectIDs, d \in FewProjectPayloads : CREATE_Projects(p, i, d)
    \/ \E p \in Procs, i \in ProjectIDs, d \in FewProjectPayloads : UPDATE_Projects(p, i, d)
    \/ \E p \in Procs, i \in ProjectIDs : DELETE_Projects_before(p, i)
    \/ \E p \in Procs : DELETE_Projects_on(p)
    \/ \E p \in Procs, t \in {"T1", "T2"}, d \in FewTaskPayloads : CREATE_Tasks_before(p, t, d)
    \/ \E p \in Procs : CREATE_Tasks_on(p)
    \/ \E p \in Procs, t \in {"T1", "T2"}, d \in FewTaskPayloads : UPDATE_Tasks_before(p, t, d)
    \/ \E p \in Procs : UPDATE_Tasks_on(p)
    \/ \E p \in Procs : assignTask_select(p, "T1", Some(<<"A">>))
    \/ \E p \in Procs : assignTask_update(p)

SpecWrites == InitWrites /\ [][NextWrites]_vars

\* ------------------------------------------------ the completion rate alone

\* The after-READ handler of Projects holding the counts of a query's result,
\* line 107 being next: every pair of counts up to MaxTasks tasks.
InitRate ==
    /\ projects = [i \in {"P1"} |-> ProjectRow("P1", Null, Some(0))]
    /\ tasks = << >>
    /\ now = DayLen
    /\ tz = 0
    /\ \E total \in 0..MaxTasks, completed \in 0..MaxTasks :
          /\ completed <= total
          /\ req = [p \in Procs |->
                      IF p = 1 THEN [pc |-> "READ Projects:completionRate",
                                     totalTasks |-> total, completedTasks |-> completed]
                      ELSE Idle]
    /\ resp = NoResp
    /\ ops = 0

completionRate_apply(p) ==
    /\ req[p].pc = "READ Projects:completionRate"
    /\ Finish(p, Payload(p, "READ Projects",
                 [completionRate |-> completionRate(req[p].completedTasks,
                                                    req[p].totalTasks)]))
    /\ UNCHANGED <<projects, tasks, now, tz>>

NextRate == \E p \in Procs : completionRate_apply(p)

SpecRate == InitRate /\ [][NextRate]_vars

\* -------------------------------------------------------- all operations

\* One store as earlier requests left it: P1 with a budget of 1000, no P2;
\* T1 open or completed, T2 open, no T3.  Every operation runs, the named ones
\* with one argument of each kind.
Init ==
    /\ projects = [i \in {"P1"} |-> ProjectRow("P1", Some(1000), Some(0))]
    /\ tasks \in {[i \in {"T1", "T2"} |->
                     IF i = "T1" THEN TaskRow(i, st, IF st = "DONE" THEN Some(1) ELSE Null,
                                              Null, Some(1), Some("P1"))
                     ELSE TaskRow(i, "TODO", Null, Null, Null, Some("P1"))]
                  : st \in {"TODO", "DONE"}}
    /\ now = DayLen
    /\ tz = 0
    /\ req = [p \in Procs |-> Idle]
    /\ resp = NoResp
    /\ ops = 0

Next ==
    \/ Tick
    \/ \E p \in Procs, t \in {"T1", "T3"} : completeTask_select(p, t)
    \/ \E p \in Procs : completeTask_update(p)
    \/ \E p \in Procs, t \in {"T1", "T3"}, a \in {Some(<<>>), Some(<<"A">>)} :
           assignTask_select(p, t, a)
    \/ \E p \in Procs : assignTask_update(p)
    \/ \E p \in Procs, d \in FewBudgetArgs :
           updateProjectBudget_select(p, d)
    \/ \E p \in Procs : updateProjectBudget_update(p)
    \/ \E p \in Procs, i \in ProjectIDs : getProjectStats_selectProject(p, i)
    \/ \E p \in Procs : getProjectStats_selectTasks(p)
    \/ \E p \in Procs, i \in ProjectIDs : READ_Projects_on(p, i)
    \/ \E p \in Procs : READ_Projects_after(p)
    \/ \E p \in Procs, t \in {"T1", "T3"} : READ_Tasks(p, t)

Spec == Init /\ [][Next]_vars

\* ------------------------------------------------------------------ claims

SoftFailure(p, op, message) ==
    /\ resp'.kind = "payload" /\ resp'.proc = p /\ resp'.op = op
    /\ resp'.body.success = FALSE /\ resp'.body.message = message
    /\ req'[p] = Idle

Success(p, op) ==
    /\ resp'.kind = "payload" /\ resp'.proc = p /\ resp'.op = op
    /\ resp'.body.success = TRUE
    /\ req'[p] = Idle

LastIs(op, success) ==
    /\ resp.kind = "payload" /\ resp.op = op /\ resp.body.success = success

\* C1: completeTask on an existing task whose stored status is not DONE goes on
\* to its write, and the write stores status DONE and completedAt = the current
\* instant on that task and answers success: true.
C1_CompleteTaskCompletes ==
    [][\A p \in Procs :
        /\ \A t \in DOMAIN tasks :
              completeTask_select(p, t) /\ tasks[t].status # "DONE"
                  => /\ req'[p].pc = "completeTask:update"
                     /\ req'[p].taskID = t
                     /\ resp' = resp
        /\ completeTask_update(p)
              => /\ req[p].taskID \in DOMAIN tasks'
                 /\ tasks'[req[p].taskID].status = "DONE"
                 /\ tasks'[req[p].taskID].completedAt = Some(now)
                 /\ Success(p, "completeTask")]_vars

\* A completion answered success after the clock moved on from the instant the
\* initial rows carry.
C1_Witness ==
    /\ LastIs("completeTask", TRUE)
    /\ \E t \in DOMAIN tasks :
          /\ tasks[t].status = "DONE"
          /\ tasks[t].completedAt = Some(now)
          /\ now > DayLen

\* C2: completeTask on a task whose stored status is DONE answers
\* {success: false, "Task is already completed"} at once and leaves the store
\* (status, completedAt and all else) as it was.
C2_AlreadyCompleted ==
    [][\A p \in Procs : \A t \in DOMAIN tasks :
          completeTask_select(p, t) /\ tasks[t].status = "DONE"
              => /\ SoftFailure(p, "completeTask", <<"Task is already completed">>)
                 /\ tasks' = tasks
                 /\ projects' = projects]_vars

\* The soft failure was answered for a task completed at an earlier instant.
C2_Witness ==
    /\ LastIs("completeTask", FALSE)
    /\ resp.body.message = <<"Task is already completed">>
    /\ \E t \in DOMAIN tasks :
          /\ tasks[t].status = "DONE"
          /\ tasks[t].completedAt # Null
          /\ tasks[t].completedAt # Some(now)

\* C3 as stated: a completeTask request never writes (and answers success) on a
\* task whose stored status is already DONE, whether or not requests overlap.
C3_NoDoubleProcessing ==
    [][\A p \in Procs :
          completeTask_update(p) /\ req[p].taskID \in DOMAIN tasks
              => tasks[req[p].taskID].status # "DONE"]_vars

\* C3 amended: a completeTask request that no other request overlapped writes
\* (and answers success) only on a task whose stored status is not DONE, so of
\* two requests issued one after the other the later one is the soft failure.
C3_NoDoubleProcessingSequential ==
    [][\A p \in Procs :
          /\ completeTask_update(p) /\ req[p].alone
                => /\ req[p].taskID \in DOMAIN tasks
                   /\ tasks[req[p].taskID].status # "DONE"
          /\ \A t \in DOMAIN tasks :
                completeTask_select(p, t) /\ tasks[t].status = "DONE"
                    => SoftFailure(p, "completeTask", <<"Task is already completed">>)]_vars

\* A second request on a task a request of this behaviour completed: the soft
\* failure, the first completion's instant still stored.
C3_Witness ==
    /\ ops >= 2
    /\ LastIs("completeTask", FALSE)
    /\ resp.body.message = <<"Task is already completed">>
    /\ \E t \in DOMAIN tasks :
          tasks[t].status = "DONE" /\ tasks[t].completedAt \notin {Null, Some(1)}

\* C4: assignTask with a non-empty assignee on an existing task goes on to its
\* write; the write of a request no other request overlapped stores assignedTo,
\* stores IN_PROGRESS if the stored status is TODO and leaves every other
\* status as stored, and answers success: true.
C4_AssignTask ==
    [][\A p \in Procs :
        /\ \A t \in DOMAIN tasks : \A a \in Assignees :
              assignTask_select(p, t, a) /\ a \in {Some(<<"A">>), Some(<<" ", "B">>)}
                  => /\ req'[p].pc = "assignTask:update"
                     /\ req'[p].taskID = t
                     /\ req'[p].assignedTo = a
                     /\ resp' = resp
        /\ assignTask_update(p) /\ req[p].alone
              => /\ req[p].taskID \in DOMAIN tasks'
                 /\ tasks'[req[p].taskID].assignedTo = req[p].assignedTo
                 /\ tasks'[req[p].taskID].status =
                        (IF tasks[req[p].taskID].status = "TODO"
                         THEN "IN_PROGRESS" ELSE tasks[req[p].taskID].status)
                 /\ Success(p, "assignTask")]_vars

\* An assignment answered success on a task that was not TODO and kept its
\* status, beside one that advanced.
C4_Witness ==
    /\ LastIs("assignTask", TRUE)
    /\ \E t, u \in DOMAIN tasks :
          /\ tasks[t].assignedTo # Null /\ tasks[t].status = "BLOCKED"
          /\ tasks[u].assignedTo # Null /\ tasks[u].status = "IN_PROGRESS"

\* C5: assignTask with an undefined, null, empty or blank assignedTo answers
\* {success: false, "Assignee name cannot be empty"} at once and leaves the
\* store as it was, for a taskID that exists and for one that does not.
C5_EmptyAssignee ==
    [][\A p \in Procs : \A t \in TaskIDs :
          \A a \in {Null, Some(<<>>), Some(<<" ", " ">>)} :
              assignTask_select(p, t, a)
                  => /\ SoftFailure(p, "assignTask", <<"Assignee name cannot be empty">>)
                     /\ tasks' = tasks
                     /\ projects' = projects]_vars

\* The soft failure was answered while a task ID had no row.
C5_Witness ==
    /\ LastIs("assignTask", FALSE)
    /\ resp.body.message = <<"Assignee name cannot be empty">>
    /\ DOMAIN tasks # TaskIDs

\* additionalCost or 0.
CostArg(data) == IF Has(data, "additionalCost") THEN Num(data.additionalCost) ELSE 0

\* C6: updateProjectBudget on an existing project with newBudget left out or
\* not negative goes on to its write; the write of a request no other request
\* overlapped stores budget = newBudget if given, else the stored budget, and
\* actualCost = the stored actualCost + (additionalCost or 0), and answers
\* success: true with remainingBudget = the budget stored - the actualCost
\* stored (an unset budget counting as 0).
C6_UpdateProjectBudget ==
    [][\A p \in Procs :
        /\ \A d \in AllBudgetArgs :
              /\ updateProjectBudget_select(p, d)
              /\ d.projectID \in DOMAIN projects
              /\ (Has(d, "newBudget") => d.newBudget[1] >= 0)
              => /\ req'[p].pc = "updateProjectBudget:update"
                 /\ req'[p].data = d
                 /\ resp' = resp
                 /\ projects' = projects
        /\ updateProjectBudget_update(p) /\ req[p].alone
              => LET id == req[p].data.projectID
                     d == req[p].data
                 IN /\ id \in DOMAIN projects'
                    /\ projects'[id].budget =
                          (IF Has(d, "newBudget") THEN d.newBudget
                           ELSE projects[id].budget)
                    /\ projects'[id].actualCost =
                          Some(projects[id].actualCost[1] + CostArg(d))
                    /\ Success(p, "updateProjectBudget")
                    /\ resp'.body.remainingBudget =
                          Num(projects'[id].budget) - projects'[id].actualCost[1]]_vars

\* The scenario of the specification: budget 1000 and nothing spent, newBudget
\* 1200 and additionalCost 300: 1200 and 300 stored, remainingBudget 900.
C6_Witness ==
    /\ LastIs("updateProjectBudget", TRUE)
    /\ ops = 1
    /\ resp.body.remainingBudget = 900
    /\ "P1" \in DOMAIN projects
    /\ projects["P1"].budget = Some(1200)
    /\ projects["P1"].actualCost = Some(300)

\* C7: updateProjectBudget with a negative newBudget on an existing project
\* answers success: false at once, with or without an additionalCost, leaves
\* the store as it was, and its remainingBudget is the stored budget - the
\* stored actualCost (an unset budget counting as 0).
C7_NegativeBudget ==
    [][\A p \in Procs : \A d \in AllBudgetArgs :
          /\ updateProjectBudget_select(p, d)
          /\ d.projectID \in DOMAIN projects
          /\ Has(d, "newBudget") /\ d.newBudget # Null /\ d.newBudget[1] < 0
          => /\ SoftFailure(p, "updateProjectBudget", <<"Budget cannot be negative">>)
             /\ projects' = projects
             /\ tasks' = tasks
             /\ resp'.body.remainingBudget =
                   Num(projects[d.projectID].budget)
                       - projects[d.projectID].actualCost[1]]_vars

\* The failure was answered for a project with 300 spent of 1000.
C7_Witness ==
    /\ LastIs("updateProjectBudget", FALSE)
    /\ resp.body.message = <<"Budget cannot be negative">>
    /\ resp.body.remainingBudget = 700
    /\ "P2" \in DOMAIN projects
    /\ projects["P2"].budget = Some(1000)
    /\ projects["P2"].actualCost = Some(300)

\* C9: getProjectStats on a projectID with no stored project signals a 404
\* error at the lookup and the request is rejected with status 404 and no
\* payload; the store is as it was.
C9_StatsNotFound ==
    [][\A p \in Procs :
        /\ \A i \in ProjectIDs \ DOMAIN projects :
              getProjectStats_selectProject(p, i)
                  => {e.code : e \in req'[p].errors} = {404}
        /\ getProjectStats_selectTasks(p) /\ req[p].projectID \notin DOMAIN projects
              => /\ resp'.kind = "error"
                 /\ resp'.proc = p
                 /\ resp'.op = "getProjectStats"
                 /\ {e.code : e \in resp'.errors} = {404}
                 /\ "body" \notin DOMAIN resp'
                 /\ req'[p] = Idle
                 /\ projects' = projects
                 /\ tasks' = tasks]_vars

\* A getProjectStats request was rejected while tasks were stored.
C9_Witness ==
    /\ resp.kind = "error"
    /\ resp.op = "getProjectStats"
    /\ DOMAIN tasks = TaskIDs

\* round(100 * c / t), halves up: the integer r with r - 1/2 <= 100c/t < r + 1/2.
IsRoundedPercent(r, c, t) ==
    /\ r \in 0..100
    /\ 2 * t * r <= 200 * c + t
    /\ 200 * c + t < 2 * t * (r + 1)

\* C10 as stated: getProjectStats on an existing project returns the number of
\* its tasks, the number of those that are DONE, the rounded percentage (0 with
\* no tasks) and the number of those not DONE whose due date is a calendar day
\* before today; the rate is the one a Project read derives and the overdue
\* count is the number of its tasks a Task read derives as overdue.
C10_ProjectStats ==
    [][\A p \in Procs :
          getProjectStats_selectTasks(p) /\ req[p].projectID \in DOMAIN projects
              => LET id == req[p].projectID
                     rows == {t \in DOMAIN tasks : tasks[t].project_ID = Some(id)}
                     done == {t \in rows : tasks[t].status = "DONE"}
                     late == {t \in rows : /\ tasks[t].status # "DONE"
                                           /\ tasks[t].dueDate # Null
                                           /\ tasks[t].dueDate[1] < Today}
                 IN /\ resp'.kind = "payload"
                    /\ resp'.proc = p
                    /\ resp'.body.totalTasks = Cardinality(rows)
                    /\ resp'.body.completedTasks = Cardinality(done)
                    /\ IF rows = {} THEN resp'.body.completionRate = 0
                       ELSE IsRoundedPercent(resp'.body.completionRate,
                                             Cardinality(done), Cardinality(rows))
                    /\ resp'.body.overdueTasks = Cardinality(late)
                    /\ resp'.body.completionRate =
                          Projects_afterRead(id, projects[id]).completionRate
                    /\ resp'.body.overdueTasks =
                          Cardinality({t \in rows : Tasks_afterRead(tasks[t]).isOverdue})]_vars

\* C11 as stated: the completionRate a Project read derives is an integer from
\* 0 to 100, and it is 100 * completed / total rounded to the nearest integer,
\* over the tasks that reference the project, or 0 when there are none.
C11_CompletionRate ==
    [][\A p \in Procs :
          /\ READ_Projects_after(p)
                => LET rows == TasksOfProject(req[p].ID)
                       done == {t \in rows : tasks[t].status = "DONE"}
                   IN IF rows = {} THEN resp'.body.completionRate = 0
                      ELSE IsRoundedPercent(resp'.body.completionRate,
                                            Cardinality(done), Cardinality(rows))
          /\ completionRate_apply(p)
                => IF req[p].totalTasks = 0 THEN resp'.body.completionRate = 0
                   ELSE IsRoundedPercent(resp'.body.completionRate,
                                         req[p].completedTasks, req[p].totalTasks)]_vars

\* C12 as stated: the remainingBudget a Project read derives is budget minus
\* actualCost whenever the project has a budget, a budget of 0 included, and
\* null exactly when it has none.
C12_RemainingBudget ==
    [][\A p \in Procs :
          READ_Projects_after(p)
              => LET row == req[p].row
                 IN resp'.body.remainingBudget =
                        IF row.budget # Null
                        THEN Some(row.budget[1] - Num(row.actualCost))
                        ELSE Null]_vars

\* C13 as stated: the isOverdue a Task read derives is true exactly when the
\* task is not DONE, has a due date, and that date is a calendar day before
\* today; it is false without a due date and when the task is due today.
C13_IsOverdue ==
    [][\A p \in Procs, t \in TaskIDs :
          READ_Tasks(p, t) /\ t \in DOMAIN tasks
              => resp'.body.isOverdue =
                    (/\ tasks[t].status # "DONE"
                     /\ tasks[t].dueDate # Null
                     /\ tasks[t].dueDate[1] < Today)]_vars

\* C16 as stated: whatever Project creates, Project updates and
\* updateProjectBudget calls have run, every stored project has a budget of at
\* least 0, if it has one, and an actualCost of at least 0.
C16_AmountsNonNegative ==
    \A i \in DOMAIN projects :
        /\ projects[i].budget # Null => projects[i].budget[1] >= 0
        /\ Num(projects[i].actualCost) >= 0

\* Slot p's request was rejected, every error it carries having this code, one
\* of them this message, and the store is as it was.
RejectedWith(p, code, message) ==
    /\ resp'.kind = "error" /\ resp'.proc = p
    /\ \A e \in resp'.errors : e.code = code
    /\ Error(code, message) \in resp'.errors
    /\ UNCHANGED <<projects, tasks>>

ProjectWrite(p, i, d) == CREATE_Projects(p, i, d) \/ UPDATE_Projects(p, i, d)

\* The payloads that carry both dates, and those with a negative amount.
BothDates == {d \in DatePayloads : HasDate(d, "startDate") /\ HasDate(d, "endDate")}
SomeNegative ==
    {d \in AmountPayloads : DefinedNegative(d, "budget") \/ DefinedNegative(d, "actualCost")}

C15_DatesOrdered ==
    \A i \in DOMAIN projects :
        projects[i].startDate # Null /\ projects[i].endDate # Null
            => projects[i].endDate[1] >= projects[i].startDate[1]

\* C17: a Project create or update whose payload carries a negative budget or
\* a negative actualCost is rejected with status 400, with the message of
\* each negative amount, and stores nothing.
C17_NegativeAmounts ==
    [][\A p \in Procs, i \in ProjectIDs, d \in SomeNegative :
          ProjectWrite(p, i, d)
              => /\ DefinedNegative(d, "budget")
                       => RejectedWith(p, 400, <<"Budget cannot be negative">>)
                 /\ DefinedNegative(d, "actualCost")
                       => RejectedWith(p, 400, <<"Actual cost cannot be negative">>)]_vars

\* A write with a negative actualCost and no negative budget was rejected,
\* with a project stored.
C17_Witness ==
    /\ resp.kind = "error"
    /\ resp.op \in {"CREATE Projects", "UPDATE Projects"}
    /\ resp.errors = {Error(400, <<"Actual cost cannot be negative">>)}
    /\ projects # << >>

\* C18: a Project delete is rejected with status 400 exactly when some task
\* that references the project is not DONE, and the message carries the number
\* of those tasks; with no task, or only DONE tasks, it passes on to the
\* delete, which, if no other request has come between, removes the project.
C18_DeleteWithActiveTasks ==
    [][\A p \in Procs :
          /\ \A i \in ProjectIDs :
                DELETE_Projects_before(p, i)
                    => LET active == {t \in DOMAIN tasks :
                                         /\ tasks[t].project_ID = Some(i)
                                         /\ tasks[t].status # "DONE"}
                       IN IF active # {}
                          THEN /\ resp'.kind = "error" /\ resp'.proc = p
                               /\ \E e \in resp'.errors :
                                     /\ resp'.errors = {e}
                                     /\ e.code = 400
                                     /\ e.message[2] = Cardinality(active)
                               /\ req'[p] = Idle
                          ELSE /\ req'[p].pc = "DELETE Projects:on"
                               /\ req'[p].ID = i
          /\ DELETE_Projects_on(p)
                => /\ resp'.kind = "error" => \A e \in resp'.errors : e.code # 400
                   /\ req[p].alone /\ req[p].ID \in DOMAIN projects
                         => /\ resp'.kind = "payload"
                            /\ req[p].ID \notin DOMAIN projects']_vars

\* A delete of P1 was refused for one active task while P1 also has a
\* completed task.
C18_Witness ==
    /\ resp.kind = "error"
    /\ resp.op = "DELETE Projects"
    /\ \E e \in resp.errors : e.code = 400 /\ e.message[2] = 1
    /\ \E t \in DOMAIN tasks : tasks[t].project_ID = Some("P1") /\ tasks[t].status = "DONE"

TaskWrite_before(p, t, d) == CREATE_Tasks_before(p, t, d) \/ UPDATE_Tasks_before(p, t, d)

\* The payloads with a negative number of hours.
NegativeHours ==
    {d \in TaskPayloads : DefinedNegative(d, "estimatedHours")
                              \/ DefinedNegative(d, "actualHours")}

\* C19: a Task create or update whose payload names a project is rejected
\* with the 404 error when no project has that identifier as the handler looks
\* it up, that error being the only one unless hours are negative too; when
\* the project exists, or the payload names none, the request carries no 404
\* error and, unless hours are negative, passes on to the write.
C19_ProjectReference ==
    [][\A p \in Procs, t \in TaskIDs, d \in ReferencePayloads :
          TaskWrite_before(p, t, d)
              => IF d.project_ID # Null /\ d.project_ID[1] \notin DOMAIN projects
                 THEN /\ resp'.kind = "error" /\ resp'.proc = p
                      /\ Error(404, <<"Project with ID", d.project_ID[1], "not found">>)
                            \in resp'.errors
                      /\ d \notin NegativeHours
                            => \A e \in resp'.errors : e.code = 404
                      /\ req'[p] = Idle
                      /\ UNCHANGED <<projects, tasks>>
                 ELSE IF d \in NegativeHours
                 THEN /\ resp'.kind = "error" /\ resp'.proc = p
                      /\ \A e \in resp'.errors : e.code # 404
                 ELSE /\ req'[p].pc \in {"CREATE Tasks", "UPDATE Tasks"}
                      /\ req'[p].ID = t /\ req'[p].data = d]_vars

\* A write naming P2, which does not exist, was rejected with the 404 error
\* alone, after a create naming P1 had stored T2.
C19_Witness ==
    /\ resp.kind = "error"
    /\ resp.op \in {"CREATE Tasks", "UPDATE Tasks"}
    /\ resp.errors = {Error(404, <<"Project with ID", "P2", "not found">>)}
    /\ "T2" \in DOMAIN tasks
    /\ tasks["T2"].project_ID = Some("P1")

\* Every stored task has at least 0 estimated hours, if it has an estimate,
\* and at least 0 actual hours.
Tasks_hoursNonNegative ==
    \A t \in DOMAIN tasks :
        /\ tasks[t].estimatedHours # Null => tasks[t].estimatedHours[1] >= 0
        /\ Num(tasks[t].actualHours) >= 0

BothAmounts ==
    {d \in AmountPayloads : /\ Has(d, "budget") /\ d.budget # Null
                            /\ Has(d, "actualCost") /\ d.actualCost # Null
                            /\ d \notin SomeNegative}

\* C21 as stated: a Project create or update whose payload carries a budget
\* and an actualCost above it, a budget of 0 with a positive actualCost
\* included, answers with the warning and the write is stored; with an
\* actualCost up to the budget there is no warning.
C21_CostExceedsBudget ==
    [][\A p \in Procs, i \in ProjectIDs, d \in BothAmounts :
          ProjectWrite(p, i, d) /\ i \in DOMAIN projects'
              => /\ resp'.kind = "payload" /\ resp'.proc = p
                 /\ projects'[i].budget = d.budget
                 /\ projects'[i].actualCost = d.actualCost
                 /\ resp'.warnings =
                       IF d.actualCost[1] > d.budget[1]
                       THEN {<<"Actual cost exceeds budget">>} ELSE {}]_vars

\* Slot p's request has just been answered with a rejection.
RejectedNow(p) == resp'.kind = "error" /\ resp'.proc = p /\ req'[p] = Idle

\* C22: a create, update or delete that a before-handler refuses with a 400
\* or 404 error stores nothing: Projects and Tasks are after the rejected
\* request as they were before it.
C22_RejectedNotCommitted ==
    [][\A p \in Procs :
          /\ \A i \in ProjectIDs, d \in FewProjectPayloads :
                ProjectWrite(p, i, d) /\ RejectedNow(p)
                    => UNCHANGED <<projects, tasks>>
          /\ \A t \in TaskIDs, d \in FewTaskPayloads :
                TaskWrite_before(p, t, d) /\ RejectedNow(p)
                    => UNCHANGED <<projects, tasks>>
          /\ \A i \in ProjectIDs :
                DELETE_Projects_before(p, i) /\ RejectedNow(p)
                    => UNCHANGED <<projects, tasks>>]_vars

\* A delete was refused for an active task after a create had stored T2; the
\* project and both tasks are stored.
C22_Witness ==
    /\ resp.kind = "error"
    /\ resp.op = "DELETE Projects"
    /\ "P1" \in DOMAIN projects
    /\ DOMAIN tasks = {"T1", "T2"}

\* C23: the write of updateProjectBudget stores the budget and the actualCost
\* the request computed from the row it read, whatever is stored by then; when
\* no other request overlapped it that is the stored actualCost plus its
\* additional cost, so calls one after the other add up, while of two
\* overlapping calls the later write drops the earlier one's addition.
C23_LastWriterWins ==
    [][\A p \in Procs :
          updateProjectBudget_update(p) /\ req[p].data.projectID \in DOMAIN projects
              => LET id == req[p].data.projectID
                 IN /\ projects'[id].budget = req[p].updatedBudget
                    /\ projects'[id].actualCost = Some(req[p].updatedCost)
                    /\ req[p].alone
                          => projects'[id].actualCost =
                                Some(Num(projects[id].actualCost) + CostArg(req[p].data))
                    /\ \A q \in Procs \ {p} :
                          /\ req[q].pc = "updateProjectBudget:update"
                          /\ req[q].data.projectID = id
                          => req'[q].updatedCost = req[q].updatedCost]_vars

\* Two calls on P1, which had nothing spent, each adding 300, both past their
\* read: one has stored 300 and answered, the other is about to store 300
\* again, not 600.
C23_Witness ==
    \E p \in Procs :
        /\ req[p].pc = "updateProjectBudget:update"
        /\ req[p].data.projectID = "P1"
        /\ ~req[p].alone
        /\ req[p].updatedCost = 300
        /\ projects["P1"].actualCost = Some(300)
        /\ resp.kind = "payload" /\ resp.op = "updateProjectBudget"
        /\ resp.proc # p /\ resp.body.success

\* The fields a read derives.
DerivedFields == {"completionRate", "remainingBudget", "isOverdue"}

\* No stored row has a derived field.
NothingDerivedStored ==
    /\ \A i \in DOMAIN projects : DOMAIN projects[i] \cap DerivedFields = {}
    /\ \A t \in DOMAIN tasks : DOMAIN tasks[t] \cap DerivedFields = {}

\* Slot p takes a step of a Project read, a Task read or getProjectStats.
ReadStep(p) ==
    \/ \E i \in ProjectIDs : READ_Projects_on(p, i)
    \/ READ_Projects_after(p)
    \/ \E t \in TaskIDs : READ_Tasks(p, t)
    \/ \E i \in ProjectIDs : getProjectStats_selectProject(p, i)
    \/ getProjectStats_selectTasks(p)

\* C24: no stored row ever has a derived field; a Project read, a Task read
\* and getProjectStats leave Projects and Tasks as they were; and what they
\* answer is derived from the rows stored when they run: the rate and the
\* counts from the tasks' stored statuses, isOverdue false for a task stored
\* as DONE.
C24_DerivedNotPersisted ==
    /\ []NothingDerivedStored
    /\ [][\A p \in Procs :
             /\ ReadStep(p) => UNCHANGED <<projects, tasks>>
             /\ READ_Projects_after(p) \/ (getProjectStats_selectTasks(p)
                                              /\ req[p].projectID \in DOMAIN projects)
                   => LET id == IF READ_Projects_after(p) THEN req[p].ID
                                ELSE req[p].projectID
                          rows == {t \in DOMAIN tasks : tasks[t].project_ID = Some(id)}
                          done == {t \in rows : tasks[t].status = "DONE"}
                      IN /\ resp'.kind = "payload" /\ resp'.proc = p
                         /\ IF rows = {} THEN resp'.body.completionRate = 0
                            ELSE IsRoundedPercent(resp'.body.completionRate,
                                                  Cardinality(done), Cardinality(rows))
             /\ \A t \in DOMAIN tasks :
                   READ_Tasks(p, t)
                       => /\ resp'.kind = "payload" /\ resp'.proc = p
                          /\ resp'.body.status = tasks[t].status
                          /\ tasks[t].status = "DONE" => ~resp'.body.isOverdue]_vars

\* A Project read answered a rate of 50 after a completeTask of this behaviour
\* had completed T1, T2 being open.
C24_Witness ==
    /\ resp.kind = "payload" /\ resp.op = "READ Projects"
    /\ resp.body.completionRate = 50
    /\ DOMAIN tasks = {"T1", "T2"}
    /\ tasks["T1"].status = "DONE"
    /\ tasks["T1"].completedAt \notin {Null, Some(1)}

\* C25 as stated: whenever completeTask or assignTask changes the stored status
\* of a task, it is assignTask taking it from TODO to IN_PROGRESS or
\* completeTask taking it from a status other than DONE to DONE, and the
\* status written is one of the five.
C25_StatusChanges ==
    [][\A t \in DOMAIN tasks :
          t \in DOMAIN tasks' /\ tasks'[t].status # tasks[t].status
              => /\ tasks'[t].status \in Statuses
                 /\ \/ \E p \in Procs :
                          /\ assignTask_update(p) /\ req[p].taskID = t
                          /\ tasks[t].status = "TODO"
                          /\ tasks'[t].status = "IN_PROGRESS"
                    \/ \E p \in Procs :
                          /\ completeTask_update(p) /\ req[p].taskID = t
                          /\ tasks[t].status # "DONE"
                          /\ tasks'[t].status = "DONE"]_vars

\* C26 as stated: with only completeTask and assignTask acting, overlapping
\* or not, a task stored as DONE stays DONE, so no task has a completedAt and
\* the status TODO or IN_PROGRESS.
C26_DoneStaysDone ==
    /\ [](\A t \in DOMAIN tasks :
             tasks[t].completedAt # Null => tasks[t].status \notin {"TODO", "IN_PROGRESS"})
    /\ [][\A t \in DOMAIN tasks :
             tasks[t].status = "DONE" /\ t \in DOMAIN tasks'
                 => tasks'[t].status = "DONE"]_vars

\* C27 as stated: however a Project delete interleaves with Task creates, Task
\* updates and assignTask, no stored task references a project that is not
\* stored, and when the delete removes the project no task that references it
\* has a status other than DONE.
C27_DeleteVersusTaskWrites ==
    /\ [](\A t \in DOMAIN tasks :
             tasks[t].project_ID # Null => tasks[t].project_ID[1] \in DOMAIN projects)
    /\ [][\A p \in Procs :
             DELETE_Projects_on(p) /\ req[p].ID \in DOMAIN projects
                 => \A t \in DOMAIN tasks :
                       tasks[t].project_ID = Some(req[p].ID)
                           => tasks[t].status = "DONE"]_vars

\* Between `before` and `after` a table has the same rows with the same
\* columns, and differs at most in the columns `fields` of row `id`.
OnlyFieldsOf(before, after, id, fields) ==
    /\ DOMAIN after = DOMAIN before
    /\ \A i \in DOMAIN before :
          /\ DOMAIN after[i] = DOMAIN before[i]
          /\ \A f \in DOMAIN before[i] :
                i # id \/ f \notin fields => after[i][f] = before[i][f]

\* The write of slot p's named action touches only the named columns of the
\* addressed row, and no row of the other table.
NamedFieldsOnly(p) ==
    /\ completeTask_update(p)
          => /\ projects' = projects
             /\ OnlyFieldsOf(tasks, tasks', req[p].taskID, {"status", "completedAt"})
    /\ assignTask_update(p)
          => /\ projects' = projects
             /\ OnlyFieldsOf(tasks, tasks', req[p].taskID, {"assignedTo", "status"})
    /\ updateProjectBudget_update(p)
          => /\ tasks' = tasks
             /\ OnlyFieldsOf(projects, projects', req[p].data.projectID,
                             {"budget", "actualCost"})

\* Slot p is about to write for an updateProjectBudget that came without a
\* newBudget, and the project is stored.
WritesWithoutNewBudget(p) ==
    /\ updateProjectBudget_update(p)
    /\ ~Has(req[p].data, "newBudget")
    /\ req[p].data.projectID \in DOMAIN projects

C8_NotFoundIsSoft ==
    [][\A p \in Procs :
        /\ \A t \in TaskIDs \ DOMAIN tasks :
              /\ completeTask_select(p, t)
                    => /\ SoftFailure(p, "completeTask", <<"Task with ID", t, "not found">>)
                       /\ tasks' = tasks /\ projects' = projects
              /\ \A a \in {Some(<<"A">>), Some(<<" ", "B">>)} :
                    assignTask_select(p, t, a)
                        => /\ SoftFailure(p, "assignTask",
                                          <<"Task with ID", t, "not found">>)
                           /\ tasks' = tasks /\ projects' = projects
        /\ \A d \in AllBudgetArgs :
              updateProjectBudget_select(p, d) /\ d.projectID \notin DOMAIN projects
                  => /\ SoftFailure(p, "updateProjectBudget",
                                    <<"Project with ID", d.projectID, "not found">>)
                     /\ resp'.body.remainingBudget = 0
                     /\ tasks' = tasks /\ projects' = projects]_vars

\* updateProjectBudget answered not-found after a task operation did, in a
\* store that has rows.
C8_Witness ==
    /\ LastIs("updateProjectBudget", FALSE)
    /\ resp.body.message = <<"Project with ID", "P2", "not found">>
    /\ ops = 2
    /\ DOMAIN tasks # {}

====
